---- MODULE Spec2Model ----
(***************************************************************************)
(* Model of src/rotary_i2c.py: the RotaryI2C driver for an I2C rotary      *)
(* encoder.  The driver object holds devno, min_val, max_val and value;    *)
(* every method is one action that runs the whole method against a         *)
(* transport (PimoroniI2C) whose outcomes are drawn nondeterministically.  *)
(* The variable last records the most recent call: the transport           *)
(* operations it issued, in order, and what it returned or raised.         *)
(***************************************************************************)
EXTENDS Integers, Sequences, FiniteSets

VARIABLES devno, min_val, max_val, value, last

vars == <<devno, min_val, max_val, value, last>>

(***************************************************************************)
(* Bounds of the model                                                     *)
(***************************************************************************)
\* largest bound value a caller passes as min_val / max_val (smallest: -1)
MaxBound == 2
\* largest magnitude of the small deltas the peripheral reports
MaxDelta == 3
\* largest device number used by the caller
MaxDevNo == 1

BoundVals == -1 .. MaxBound
DevNos == 0 .. MaxDevNo

(***************************************************************************)
(* Command literals                                                        *)
(***************************************************************************)
CMD_READ_VAL_POS == 17
CMD_READ_BUTTONS == 1
CMD_READ_NUMBER == 4
\* the absolute-position selector, in place of the delta selector
VAL_POSITION == 48
VAL_DELTA == 64
\* sleep_ms(8) between the command write and the reply read
SETTLE_MS == 8
\* dsize passed by position() and button()
REPLY_SIZE == 4

(***************************************************************************)
(* The transport: outcomes of writeto / readfrom_into / scan               *)
(***************************************************************************)
\* failures the transport can raise (OSError codes)
TransportErrors == {"EIO", "ETIMEDOUT"}

NoExc == [type |-> "none", tag |-> "none"]
OSError(e) == [type |-> "OSError", tag |-> e]
\* raise Exception("ERROR [rotary_i2c.i2c_write()] : No target device ...")
NoDeviceError == [type |-> "Exception", tag |-> "rotary_i2c.i2c_write()"]

\* writeto on n bytes: all n sent, a short write of 0 bytes, or a failure
WriteOutcomes(n) ==
    {[ok |-> TRUE, nsent |-> k, err |-> "none"] : k \in {0, n}}
    \cup {[ok |-> FALSE, nsent |-> 0, err |-> e] : e \in TransportErrors}

\* readfrom_into: the buffer is filled with one of the replies, or a failure
ReadOutcomes(replies) ==
    {[ok |-> TRUE, data |-> r, err |-> "none"] : r \in replies}
    \cup {[ok |-> FALSE, data |-> <<>>, err |-> e] : e \in TransportErrors}

\* replies to the delta command: small deltas of either sign as big-endian
\* two's complement, and patterns with the high bytes set
PositionReplies ==
    {<<0, 0, 0, b>> : b \in 0 .. MaxDelta}
    \cup {<<255, 255, 255, 256 - b>> : b \in 1 .. MaxDelta}
    \cup {<<0, 0, 1, 0>>, <<1, 0, 0, 0>>, <<64, 0, 0, 0>>, <<192, 0, 0, 0>>}

\* replies to the status command
ButtonReplies ==
    {<<0, 0, 0, 0>>, <<1, 0, 0, 0>>, <<254, 255, 255, 255>>, <<255, 1, 2, 3>>}

\* the operations a call issues on the transport and the clock, in order,
\* each with its outcome res: "ok" or the failure the transport raised;
\* n is the byte count writeto returned, data of a scan the addresses found
Res(out) == IF out.ok THEN "ok" ELSE out.err
EvWrite(addr, cdata, wout) ==
    [op |-> "writeto", addr |-> addr, data |-> cdata, size |-> Len(cdata),
     res |-> Res(wout), n |-> wout.nsent]
EvSleep(ms) ==
    [op |-> "sleep_ms", addr |-> 0, data |-> <<>>, size |-> ms, res |-> "ok",
     n |-> 0]
EvRead(addr, dsize, rout) ==
    [op |-> "readfrom_into", addr |-> addr, data |-> <<>>, size |-> dsize,
     res |-> Res(rout), n |-> 0]
EvScan(sout) ==
    [op |-> "scan", addr |-> 0, data |-> sout.found, size |-> 0,
     res |-> Res(sout), n |-> 0]

(***************************************************************************)
(* The record of a call                                                    *)
(***************************************************************************)
Call(op, status, exc, rint, rbool, rseq, reply, trace, pre, raw) ==
    [op |-> op, status |-> status, exc |-> exc, rint |-> rint,
     rbool |-> rbool, rseq |-> rseq, reply |-> reply, trace |-> trace,
     pre |-> pre, raw |-> raw]

(***************************************************************************)
(* RotaryI2C.i2c_write: the result of the call and the transport           *)
(* operations it issued, given the outcome wout of writeto                 *)
(***************************************************************************)
\* i2c_write without the devno == 0 test
i2c_write_noguard(dev, cdata, wout) ==
    IF wout.ok
    THEN [status |-> "ok", exc |-> NoExc, nsent |-> wout.nsent,
          trace |-> <<EvWrite(dev, cdata, wout)>>]
    ELSE [status |-> "raise", exc |-> OSError(wout.err), nsent |-> 0,
          trace |-> <<EvWrite(dev, cdata, wout)>>]

\* i2c_write that compares nsent with clen and raises on a short write
i2c_write_check_short(dev, cdata, wout) ==
    IF dev = 0
    THEN [status |-> "raise", exc |-> NoDeviceError, nsent |-> 0,
          trace |-> <<>>]
    ELSE IF wout.ok /\ wout.nsent = Len(cdata)
         THEN [status |-> "ok", exc |-> NoExc, nsent |-> wout.nsent,
               trace |-> <<EvWrite(dev, cdata, wout)>>]
         ELSE IF wout.ok
         THEN [status |-> "raise",
               exc |-> [type |-> "Exception", tag |-> "short write"],
               nsent |-> 0, trace |-> <<EvWrite(dev, cdata, wout)>>]
         ELSE [status |-> "raise", exc |-> OSError(wout.err), nsent |-> 0,
               trace |-> <<EvWrite(dev, cdata, wout)>>]

i2c_write(dev, cdata, wout) ==
    IF dev = 0
    THEN [status |-> "raise", exc |-> NoDeviceError, nsent |-> 0,
          trace |-> <<>>]
    ELSE IF wout.ok
         THEN [status |-> "ok", exc |-> NoExc, nsent |-> wout.nsent,
               trace |-> <<EvWrite(dev, cdata, wout)>>]
         ELSE [status |-> "raise", exc |-> OSError(wout.err), nsent |-> 0,
               trace |-> <<EvWrite(dev, cdata, wout)>>]

(***************************************************************************)
(* RotaryI2C.i2c_read: i2c_write, sleep_ms(8), readfrom_into a fresh       *)
(* bytearray(dsize); rout is the outcome of readfrom_into                  *)
(***************************************************************************)
\* i2c_read without the sleep_ms(8)
i2c_read_nosleep(dev, cdata, dsize, wout, rout) ==
    LET w == i2c_write(dev, cdata, wout)
    IN  IF w.status = "raise"
        THEN [status |-> "raise", exc |-> w.exc, reply |-> <<>>,
              trace |-> w.trace]
        ELSE LET tr == w.trace \o <<EvRead(dev, dsize, rout)>>
             IN  IF rout.ok
                 THEN [status |-> "ok", exc |-> NoExc, reply |-> rout.data,
                       trace |-> tr]
                 ELSE [status |-> "raise", exc |-> OSError(rout.err),
                       reply |-> <<>>, trace |-> tr]

\* i2c_read with a devno == 0 test and message of its own
i2c_read_ownguard(dev, cdata, dsize, wout, rout) ==
    LET w == i2c_write(dev, cdata, wout)
    IN  IF dev = 0
        THEN [status |-> "raise",
              exc |-> [type |-> "Exception", tag |-> "rotary_i2c.i2c_read()"],
              reply |-> <<>>, trace |-> <<>>]
        ELSE IF w.status = "raise"
        THEN [status |-> "raise", exc |-> w.exc, reply |-> <<>>,
              trace |-> w.trace]
        ELSE LET tr == w.trace \o <<EvSleep(SETTLE_MS)>>
                               \o <<EvRead(dev, dsize, rout)>>
             IN  IF rout.ok
                 THEN [status |-> "ok", exc |-> NoExc, reply |-> rout.data,
                       trace |-> tr]
                 ELSE [status |-> "raise", exc |-> OSError(rout.err),
                       reply |-> <<>>, trace |-> tr]

\* i2c_read that catches a failure of writeto and goes on to the reply read
i2c_read_ignore_write_failure(dev, cdata, dsize, wout, rout) ==
    LET w == i2c_write(dev, cdata, wout)
    IN  IF w.status = "raise" /\ w.exc.type # "OSError"
        THEN [status |-> "raise", exc |-> w.exc, reply |-> <<>>,
              trace |-> w.trace]
        ELSE LET tr == w.trace \o <<EvSleep(SETTLE_MS)>>
                               \o <<EvRead(dev, dsize, rout)>>
             IN  IF rout.ok
                 THEN [status |-> "ok", exc |-> NoExc, reply |-> rout.data,
                       trace |-> tr]
                 ELSE [status |-> "raise", exc |-> OSError(rout.err),
                       reply |-> <<>>, trace |-> tr]

i2c_read(dev, cdata, dsize, wout, rout) ==
    LET w == i2c_write(dev, cdata, wout)
    IN  IF w.status = "raise"
        THEN [status |-> "raise", exc |-> w.exc, reply |-> <<>>,
              trace |-> w.trace]
        ELSE LET tr == w.trace \o <<EvSleep(SETTLE_MS)>>
                               \o <<EvRead(dev, dsize, rout)>>
             IN  IF rout.ok
                 THEN [status |-> "ok", exc |-> NoExc, reply |-> rout.data,
                       trace |-> tr]
                 ELSE [status |-> "raise", exc |-> OSError(rout.err),
                       reply |-> <<>>, trace |-> tr]

(***************************************************************************)
(* unpack(">l", reply)[0]: four bytes, most significant first, two's       *)
(* complement                                                              *)
(***************************************************************************)
\* unpack("<l", reply)[0]: least significant byte first
unpack_l_little(reply) ==
    LET msb == IF reply[4] >= 128 THEN reply[4] - 256 ELSE reply[4]
    IN  ((msb * 256 + reply[3]) * 256 + reply[2]) * 256 + reply[1]

unpack_l(reply) ==
    LET msb == IF reply[1] >= 128 THEN reply[1] - 256 ELSE reply[1]
    IN  ((msb * 256 + reply[2]) * 256 + reply[3]) * 256 + reply[4]

(***************************************************************************)
(* The wrap of position(): below min_val goes to max_val, else above       *)
(* max_val goes to min_val                                                 *)
(***************************************************************************)
\* the wrap without its elif branch
wrap_no_upper(v, lo, hi) ==
    IF v < lo THEN hi ELSE v

\* the wrap saturating at max_val instead of jumping to min_val
wrap_saturate_upper(v, lo, hi) ==
    IF v < lo THEN hi
    ELSE IF v > hi THEN hi
    ELSE v

\* the wrap saturating at min_val instead of jumping to max_val
wrap_saturate_lower(v, lo, hi) ==
    IF v < lo THEN lo
    ELSE IF v > hi THEN lo
    ELSE v

\* the wrap with <= and >= in place of < and >
wrap_exclusive(v, lo, hi) ==
    IF v <= lo THEN hi
    ELSE IF v >= hi THEN lo
    ELSE v

\* a modulo wrap: the overshoot is carried into the interval
wrap_modulo(v, lo, hi) ==
    IF hi < lo THEN (IF v < lo THEN hi ELSE IF v > hi THEN lo ELSE v)
    ELSE IF v < lo THEN hi - ((lo - v - 1) % (hi - lo + 1))
    ELSE IF v > hi THEN lo + ((v - hi - 1) % (hi - lo + 1))
    ELSE v

wrap(v, lo, hi) ==
    IF v < lo THEN hi
    ELSE IF v > hi THEN lo
    ELSE v

(***************************************************************************)
(* The test of button(): (reply[0] & 0x01) == 0                            *)
(***************************************************************************)
RECURSIVE BitAnd(_, _)
BitAnd(a, b) ==
    IF a = 0 \/ b = 0 THEN 0
    ELSE (a % 2) * (b % 2) + 2 * BitAnd(a \div 2, b \div 2)

\* the test reply[0] == 0 in place of (reply[0] & 0x01) == 0
pressed_zero_byte(reply) == reply[1] = 0

pressed(reply) == BitAnd(reply[1], 1) = 0

(***************************************************************************)
(* RotaryI2C.__init__                                                      *)
(***************************************************************************)
Init ==
    /\ min_val \in BoundVals
    /\ max_val \in BoundVals
    /\ devno \in DevNos
    /\ value = min_val
    /\ last = Call("__init__", "ok", NoExc, 0, FALSE, <<>>, <<>>, <<>>,
                   min_val, min_val)

(***************************************************************************)
(* RotaryI2C.set_device and the caller's assignments to min_val, max_val   *)
(***************************************************************************)
\* the arguments the caller gives set_device: the device numbers and one
\* beyond the 7-bit range of I2C addresses
DeviceArgs == DevNos \cup {128}

\* set_device that also puts value back to min_val
set_device_reset ==
    \E d \in DeviceArgs :
        /\ devno' = d
        /\ value' = min_val
        /\ last' = Call("set_device", "ok", NoExc, 0, FALSE, <<>>, <<>>,
                        <<>>, value, value)
        /\ UNCHANGED <<min_val, max_val>>

set_device ==
    \E d \in DeviceArgs :
        /\ devno' = d
        /\ last' = Call("set_device", "ok", NoExc, 0, FALSE, <<>>, <<>>,
                        <<>>, value, value)
        /\ UNCHANGED <<min_val, max_val, value>>

set_min_val ==
    \E v \in BoundVals :
        /\ min_val' = v
        /\ last' = Call("set_min_val", "ok", NoExc, 0, FALSE, <<>>, <<>>,
                        <<>>, value, value)
        /\ UNCHANGED <<devno, max_val, value>>

set_max_val ==
    \E v \in BoundVals :
        /\ max_val' = v
        /\ last' = Call("set_max_val", "ok", NoExc, 0, FALSE, <<>>, <<>>,
                        <<>>, value, value)
        /\ UNCHANGED <<devno, min_val, value>>

(***************************************************************************)
(* RotaryI2C.scan                                                          *)
(***************************************************************************)
ScanOutcomes ==
    {[ok |-> TRUE, found |-> f, err |-> "none"] :
        f \in {<<>>} \cup {<<d>> : d \in 1 .. MaxDevNo}}
    \cup {[ok |-> FALSE, found |-> <<>>, err |-> e] : e \in TransportErrors}

\* scan put behind the devno == 0 test of i2c_write
scan_guarded ==
    \E sout \in ScanOutcomes :
        /\ last' = IF devno = 0
                   THEN Call("scan", "raise", NoDeviceError, 0, FALSE, <<>>,
                             <<>>, <<>>, value, value)
                   ELSE IF sout.ok
                   THEN Call("scan", "ok", NoExc, 0, FALSE, sout.found, <<>>,
                             <<EvScan(sout)>>, value, value)
                   ELSE Call("scan", "raise", OSError(sout.err), 0, FALSE,
                             <<>>, <<>>, <<EvScan(sout)>>, value, value)
        /\ UNCHANGED <<devno, min_val, max_val, value>>

scan ==
    \E sout \in ScanOutcomes :
        /\ last' = IF sout.ok
                   THEN Call("scan", "ok", NoExc, 0, FALSE, sout.found, <<>>,
                             <<EvScan(sout)>>, value, value)
                   ELSE Call("scan", "raise", OSError(sout.err), 0, FALSE,
                             <<>>, <<>>, <<EvScan(sout)>>, value, value)
        /\ UNCHANGED <<devno, min_val, max_val, value>>

(***************************************************************************)
(* The caller's direct use of the primitives i2c_write and i2c_read        *)
(***************************************************************************)
Commands ==
    {<<CMD_READ_VAL_POS, VAL_DELTA>>, <<CMD_READ_BUTTONS, CMD_READ_NUMBER>>}

\* reply buffers of dsize bytes
RepliesOfSize(dsize) ==
    IF dsize = REPLY_SIZE THEN ButtonReplies
    ELSE {[i \in 1 .. dsize |-> 0], [i \in 1 .. dsize |-> 255]}

ReadSizes == {1, REPLY_SIZE}

call_i2c_write ==
    \E cdata \in Commands :
      \E wout \in WriteOutcomes(Len(cdata)) :
        LET w == i2c_write(devno, cdata, wout)
        IN  /\ last' = Call("i2c_write", w.status, w.exc, w.nsent, FALSE,
                            <<>>, <<>>, w.trace, value, value)
            /\ UNCHANGED <<devno, min_val, max_val, value>>

call_i2c_read ==
    \E cdata \in Commands, dsize \in ReadSizes :
      \E wout \in WriteOutcomes(Len(cdata)),
         rout \in ReadOutcomes(RepliesOfSize(dsize)) :
        LET r == i2c_read(devno, cdata, dsize, wout, rout)
        IN  /\ last' = Call("i2c_read", r.status, r.exc, dsize, FALSE,
                            r.reply, r.reply, r.trace, value, value)
            /\ UNCHANGED <<devno, min_val, max_val, value>>

(***************************************************************************)
(* RotaryI2C.position                                                      *)
(***************************************************************************)
\* position() that puts value back to min_val when the transaction fails
position_reset_on_error(wouts, replies) ==
    \E wout \in wouts, rout \in ReadOutcomes(replies) :
        LET cdata == <<CMD_READ_VAL_POS, VAL_DELTA>>
            r == i2c_read(devno, cdata, 4, wout, rout)
        IN  IF r.status = "raise"
            THEN /\ last' = Call("position", "raise", r.exc, 0, FALSE, <<>>,
                                 <<>>, r.trace, value, value)
                 /\ value' = min_val
                 /\ UNCHANGED <<devno, min_val, max_val>>
            ELSE LET delta == unpack_l(r.reply)
                     raw == value - delta
                     v == wrap(raw, min_val, max_val)
                 IN  /\ value' = v
                     /\ last' = Call("position", "ok", NoExc, v, FALSE, <<>>,
                                     r.reply, r.trace, value, raw)
                     /\ UNCHANGED <<devno, min_val, max_val>>

position_with(wouts, replies) ==
    \E wout \in wouts, rout \in ReadOutcomes(replies) :
        LET cdata == <<CMD_READ_VAL_POS, VAL_DELTA>>
            r == i2c_read(devno, cdata, 4, wout, rout)
        IN  IF r.status = "raise"
            THEN /\ last' = Call("position", "raise", r.exc, 0, FALSE, <<>>,
                                 <<>>, r.trace, value, value)
                 /\ UNCHANGED <<devno, min_val, max_val, value>>
            ELSE LET delta == unpack_l(r.reply)
                     raw == value - delta
                     v == wrap(raw, min_val, max_val)
                 IN  /\ value' = v
                     /\ last' = Call("position", "ok", NoExc, v, FALSE, <<>>,
                                     r.reply, r.trace, value, raw)
                     /\ UNCHANGED <<devno, min_val, max_val>>

position == position_with(WriteOutcomes(2), PositionReplies)

(***************************************************************************)
(* RotaryI2C.button                                                        *)
(***************************************************************************)
button_with(wouts, replies) ==
    \E wout \in wouts, rout \in ReadOutcomes(replies) :
        LET cdata == <<CMD_READ_BUTTONS, CMD_READ_NUMBER>>
            r == i2c_read(devno, cdata, 4, wout, rout)
        IN  /\ last' = IF r.status = "raise"
                       THEN Call("button", "raise", r.exc, 0, FALSE, <<>>,
                                 <<>>, r.trace, value, value)
                       ELSE Call("button", "ok", NoExc, 0, pressed(r.reply),
                                 <<>>, r.reply, r.trace, value, value)
            /\ UNCHANGED <<devno, min_val, max_val, value>>

button == button_with(WriteOutcomes(2), ButtonReplies)

(***************************************************************************)
(* button() against every value of reply byte 0, on a driver constructed   *)
(* with the default bounds                                                 *)
(***************************************************************************)
DEFAULT_MIN == 0
DEFAULT_MAX == 10

ReplyTails == {<<0, 0, 0>>, <<255, 255, 255>>, <<1, 2, 3>>}

AllButtonReplies == {<<b0>> \o t : b0 \in 0 .. 255, t \in ReplyTails}

button_any ==
    button_with({[ok |-> TRUE, nsent |-> 2, err |-> "none"]},
                AllButtonReplies)

InitButton ==
    /\ min_val = DEFAULT_MIN
    /\ max_val = DEFAULT_MAX
    /\ devno \in DevNos
    /\ value = min_val
    /\ last = Call("__init__", "ok", NoExc, 0, FALSE, <<>>, <<>>, <<>>,
                   min_val, min_val)

NextButton ==
    \/ set_device
    \/ button_any

SpecButton == InitButton /\ [][NextButton]_vars

(***************************************************************************)
(* Successive position() calls on a driver constructed with the default    *)
(* bounds 0 and 10, with deltas within and beyond the span of the bounds   *)
(***************************************************************************)
ScenarioReplies ==
    {<<0, 0, 0, 1>>, <<0, 0, 0, 5>>, <<0, 0, 0, 8>>, <<0, 0, 0, 11>>,
     <<255, 255, 255, 255>>, <<255, 255, 255, 245>>}

position_scenario == position_with(WriteOutcomes(2), ScenarioReplies)

InitScenario == InitButton

NextScenario ==
    \/ set_device
    \/ set_max_val
    \/ position_scenario

SpecScenario == InitScenario /\ [][NextScenario]_vars

Next ==
    \/ set_device
    \/ set_min_val
    \/ set_max_val
    \/ scan
    \/ call_i2c_write
    \/ call_i2c_read
    \/ position
    \/ button

Spec == Init /\ [][Next]_vars

(***************************************************************************)
(* Properties                                                              *)
(***************************************************************************)
\* a position() call has just returned
PosOk == last.op = "position" /\ last.status = "ok"

\* the four reply bytes read as a signed 32-bit big-endian integer:
\* (b0*2^24 + b1*2^16 + b2*2^8 + b3) modulo 2^32, as signed
Int32BE(b) ==
    LET hi == b[1] * 256 + b[2]
        lo == b[3] * 256 + b[4]
    IN  (IF hi >= 32768 THEN hi - 65536 ELSE hi) * 65536 + lo

\* the delta the peripheral reported to the position() call just returned
LastDelta == Int32BE(last.reply)

\* the call failed the devno == 0 test
ConfigError == last.status = "raise" /\ last.exc.type = "Exception"

\* C1 as stated: immediately after any position() that returns, value lies
\* in [min_val, max_val], whatever the caller made of min_val and max_val.
C1_ValueInBoundsAlways ==
    PosOk => (min_val <= value /\ value <= max_val)

\* C1 amended: immediately after any position() that returns, value lies in
\* [min_val, max_val] provided min_val <= max_val at the time of the call.
C1_ValueInBounds ==
    (PosOk /\ min_val <= max_val) => (min_val <= value /\ value <= max_val)

\* a position() that wrapped, after the caller moved the bounds away from
\* the stored value
C1_Witness ==
    /\ PosOk
    /\ min_val < max_val
    /\ last.pre > max_val
    /\ last.raw > max_val
    /\ value = min_val

\* C2: with devno = 0 a call of i2c_write or i2c_read ends in the
\* configuration error and issues no operation at all: no writeto, no
\* sleep, no readfrom_into, no scan.
C2_UnsetDeviceGuard ==
    (last.op \in {"i2c_write", "i2c_read"} /\ devno = 0)
        => (ConfigError /\ last.trace = <<>>)

C2_Witness ==
    /\ last.op = "i2c_read"
    /\ devno = 0
    /\ last.status = "raise"
    /\ Len(last.trace) = 0

\* C3 as stated: whenever value - delta > max_val, a successful position()
\* leaves value = min_val and returns min_val.
C3_OverflowAlwaysMin ==
    (PosOk /\ last.pre - LastDelta > max_val)
        => (value = min_val /\ last.rint = min_val)

\* C3 amended: whenever value - delta > max_val and value - delta >= min_val,
\* a successful position() leaves value = min_val and returns min_val.
C3_ClampOnOverflow ==
    (PosOk /\ last.pre - LastDelta > max_val /\ last.pre - LastDelta >= min_val)
        => (value = min_val /\ last.rint = min_val)

\* an overflow by more than one step that landed on min_val
C3_Witness ==
    /\ PosOk
    /\ min_val < max_val
    /\ last.pre - LastDelta > max_val + 1
    /\ value = min_val
    /\ last.rint = min_val

\* C4: whenever value - delta < min_val, a successful position() leaves
\* value = max_val and returns max_val.
C4_ClampOnUnderflow ==
    (PosOk /\ last.pre - LastDelta < min_val)
        => (value = max_val /\ last.rint = max_val)

C4_Witness ==
    /\ PosOk
    /\ min_val < max_val
    /\ last.pre - LastDelta < min_val - 1
    /\ value = max_val
    /\ last.rint = max_val

\* C5: whenever min_val <= value - delta <= max_val, a successful position()
\* leaves value = value - delta and returns it; a result equal to min_val or
\* to max_val is not moved to the opposite bound.
C5_InRangePassthrough ==
    (PosOk /\ min_val <= last.pre - LastDelta /\ last.pre - LastDelta <= max_val)
        => (value = last.pre - LastDelta /\ last.rint = last.pre - LastDelta)

\* a step that lands exactly on max_val and stays there
C5_Witness ==
    /\ PosOk
    /\ min_val < max_val
    /\ last.pre # max_val
    /\ last.pre - LastDelta = max_val
    /\ value = max_val

\* C6: a read transaction (i2c_read, and the one inside position() and
\* button()) issues writeto to devno, then sleep_ms(8), then one
\* readfrom_into of reply_size bytes from the same devno, in that order; no
\* readfrom_into happens without the writeto and the sleep before it.
C6_TransactionOrder ==
    last.op \in {"i2c_read", "position", "button"} =>
        /\ last.status = "ok" =>
            /\ Len(last.trace) = 3
            /\ last.trace[1].op = "writeto"
            /\ last.trace[1].addr = devno
            /\ last.trace[2].op = "sleep_ms"
            /\ last.trace[2].size = 8
            /\ last.trace[3].op = "readfrom_into"
            /\ last.trace[3].addr = devno
            /\ last.trace[3].size = Len(last.reply)
            /\ last.op \in {"position", "button"} => last.trace[3].size = 4
        /\ \A i \in 1 .. Len(last.trace) :
            last.trace[i].op = "readfrom_into" =>
                /\ i = 3
                /\ last.trace[1].op = "writeto"
                /\ last.trace[2].op = "sleep_ms"
                /\ last.trace[2].size = 8
                /\ last.trace[1].addr = last.trace[3].addr

C6_Witness ==
    /\ last.op = "position"
    /\ last.status = "ok"
    /\ Len(last.trace) = 3
    /\ last.trace[3].op = "readfrom_into"

\* C7: button() returns TRUE exactly when bit 0 of reply byte 0 is clear,
\* for every byte 0 in 0..255 and whatever bytes 1..3 are.
C7_ButtonDecode ==
    (last.op = "button" /\ last.status = "ok")
        => /\ last.rbool = (last.reply[1] % 2 = 0)
           /\ last.reply[1] = 0 => last.rbool
           /\ last.reply[1] = 1 => ~last.rbool
           /\ last.reply[1] = 254 => last.rbool

C7_Witness ==
    /\ last.op = "button"
    /\ last.status = "ok"
    /\ last.reply = <<254, 255, 255, 255>>
    /\ last.rbool

\* C8: position() decodes the reply as a two's-complement signed big-endian
\* 32-bit integer (FF FF FF FE is -2, 00 00 00 03 is 3) and subtracts it
\* from value before wrapping, so a negative delta increases value.
C8_SignedBigEndian ==
    PosOk =>
        /\ last.raw = last.pre - Int32BE(last.reply)
        /\ last.reply = <<255, 255, 255, 254>> => last.raw = last.pre + 2
        /\ last.reply = <<0, 0, 0, 3>> => last.raw = last.pre - 3

C8_Witness ==
    /\ PosOk
    /\ last.reply = <<255, 255, 255, 254>>
    /\ value = last.pre + 2

\* C9 as stated: the configuration error names the operation that was
\* called: i2c_write for a write call, i2c_read for a read call.
C9_NamesCalledOperation ==
    ConfigError =>
        /\ last.op = "i2c_write" => last.exc.tag = "rotary_i2c.i2c_write()"
        /\ last.op = "i2c_read" => last.exc.tag = "rotary_i2c.i2c_read()"

\* C9 amended: the configuration error names i2c_write, for a write call
\* and for a read call alike.
C9_NamesWrite ==
    (ConfigError /\ last.op \in {"i2c_write", "i2c_read"})
        => last.exc.tag = "rotary_i2c.i2c_write()"

C9_Witness ==
    /\ last.op = "i2c_read"
    /\ ConfigError
    /\ last.exc.tag = "rotary_i2c.i2c_write()"

\* C10: a failure of writeto or readfrom_into ends the call with that same
\* failure and nothing is issued after the failed operation: no sleep, no
\* readfrom_into, no second writeto, and no value is returned.
C10_TransportErrorPropagates ==
    \A i \in 1 .. Len(last.trace) :
        (last.trace[i].op \in {"writeto", "readfrom_into"}
            /\ last.trace[i].res # "ok")
        => /\ i = Len(last.trace)
           /\ last.status = "raise"
           /\ last.exc.type = "OSError"
           /\ last.exc.tag = last.trace[i].res

\* a position() whose writeto failed
C10_Witness ==
    /\ last.op = "position"
    /\ Len(last.trace) = 1
    /\ last.trace[1].op = "writeto"
    /\ last.trace[1].res = "ETIMEDOUT"
    /\ last.status = "raise"
    /\ last.exc.tag = "ETIMEDOUT"

\* the positions in the trace of the latest call of the transport operation op
OpsIn(op) == {i \in 1 .. Len(last.trace) : last.trace[i].op = op}

\* C11: a position() call issues exactly one writeto, of the bytes
\* [0x11, 0x40], and exactly one readfrom_into of 4 bytes; a button() call
\* exactly one writeto, of [0x01, 0x04], and exactly one readfrom_into of 4
\* bytes; all to the devno of the call, and no other bytes are ever sent.
\* (A call stopped by an error issues what came before the error: nothing
\* with devno = 0, the writeto alone when the writeto fails.)
C11_CommandBytes ==
    last.op \in {"position", "button"} =>
        LET cmd == IF last.op = "position" THEN <<17, 64>> ELSE <<1, 4>>
        IN  /\ \A i \in OpsIn("writeto") :
                /\ last.trace[i].data = cmd
                /\ last.trace[i].addr = devno
            /\ \A i \in OpsIn("readfrom_into") :
                /\ last.trace[i].size = 4
                /\ last.trace[i].addr = devno
            /\ Cardinality(OpsIn("writeto")) = (IF devno = 0 THEN 0 ELSE 1)
            /\ Cardinality(OpsIn("readfrom_into")) =
                 (IF \E i \in OpsIn("writeto") : last.trace[i].res = "ok"
                  THEN 1 ELSE 0)
            /\ last.status = "ok" =>
                /\ Cardinality(OpsIn("writeto")) = 1
                /\ Cardinality(OpsIn("readfrom_into")) = 1
            /\ OpsIn("scan") = {}

C11_Witness ==
    /\ last.op = "position"
    /\ last.status = "ok"
    /\ Len(last.trace) = 3
    /\ last.trace[1].data = <<17, 64>>
    /\ last.trace[1].addr = devno
    /\ last.trace[3].size = 4

\* C12: position() accumulates from the stored value, which is the wrapped
\* value the previous call returned, never the unwrapped sum; the wrap is
\* one jump to the opposite bound, not a modulo wrap: from value = 0 with
\* bounds 0 and 10, deltas 5 then 8 return 10 then 2, and from a value
\* within the bounds a delta larger than max_val - min_val lands exactly on
\* an endpoint (max_val for a positive delta, min_val for a negative one).
C12_AccumulatesFromStored ==
    [][ (last'.op = "position" /\ last'.status = "ok") =>
            LET d == Int32BE(last'.reply)
            IN  /\ last'.pre = value
                /\ last'.raw = value - d
                /\ PosOk => last'.pre = last.rint
                /\ (/\ PosOk
                    /\ min_val = 0
                    /\ max_val = 10
                    /\ last.pre = 0
                    /\ Int32BE(last.reply) = 5
                    /\ d = 8)
                   => (last.rint = 10 /\ last'.rint = 2 /\ value' = 2)
                /\ (min_val <= value /\ value <= max_val
                        /\ d > max_val - min_val)
                   => (value' = max_val /\ last'.rint = max_val)
                /\ (min_val <= value /\ value <= max_val
                        /\ -d > max_val - min_val)
                   => (value' = min_val /\ last'.rint = min_val)
      ]_vars

\* the second call of the scenario: from the wrapped 10, delta 8 gives 2
C12_Witness ==
    /\ PosOk
    /\ min_val = 0
    /\ max_val = 10
    /\ last.pre = 10
    /\ LastDelta = 8
    /\ value = 2
    /\ last.rint = 2

\* the writeto of the latest call returned fewer bytes than it was given
ShortWrite ==
    /\ Len(last.trace) >= 1
    /\ last.trace[1].op = "writeto"
    /\ last.trace[1].res = "ok"
    /\ last.trace[1].n < last.trace[1].size

\* C13: a short write is not an error: i2c_write returns the count writeto
\* reported, also when it is smaller than len(cdata), and i2c_read (so
\* position() and button() too) still sleeps, reads the reply and uses it.
C13_ShortWriteNotAnError ==
    /\ (/\ last.op = "i2c_write"
        /\ Len(last.trace) = 1
        /\ last.trace[1].res = "ok")
       => (last.status = "ok" /\ last.rint = last.trace[1].n)
    /\ (last.op \in {"i2c_read", "position", "button"} /\ ShortWrite) =>
        /\ Len(last.trace) = 3
        /\ last.trace[2].op = "sleep_ms"
        /\ last.trace[2].size = 8
        /\ last.trace[3].op = "readfrom_into"
        /\ last.trace[3].res = "ok" =>
            /\ last.status = "ok"
            /\ last.op = "i2c_read" => last.rseq = last.reply
            /\ last.op = "position" =>
                /\ last.raw = last.pre - LastDelta
                /\ value = last.rint
            /\ last.op = "button" => last.rbool = (last.reply[1] % 2 = 0)

\* a position() that moved value although its writeto sent 0 of 2 bytes
C13_Witness ==
    /\ last.op = "position"
    /\ last.status = "ok"
    /\ ShortWrite
    /\ last.trace[1].n = 0
    /\ last.trace[1].size = 2
    /\ value # last.pre

\* C14: scan() performs exactly one bus scan on the transport and no
\* writeto or readfrom_into, returns what the transport returned, leaves
\* value, min_val, max_val and devno unchanged, and is not subject to the
\* devno == 0 test: it succeeds with devno = 0.
C14_ScanPassthrough ==
    [][ last'.op = "scan" =>
            /\ UNCHANGED <<value, min_val, max_val, devno>>
            /\ Len(last'.trace) = 1
            /\ last'.trace[1].op = "scan"
            /\ last'.trace[1].res = "ok" =>
                /\ last'.status = "ok"
                /\ last'.rseq = last'.trace[1].data
            /\ last'.trace[1].res # "ok" =>
                /\ last'.status = "raise"
                /\ last'.exc.type = "OSError"
                /\ last'.exc.tag = last'.trace[1].res
      ]_vars

\* a scan with no device set that returned the address the transport found
C14_Witness ==
    /\ last.op = "scan"
    /\ devno = 0
    /\ last.status = "ok"
    /\ Len(last.trace) = 1
    /\ last.rseq = <<1>>
    /\ last.trace[1].data = <<1>>

\* C15: a position() call that ends in an error (the configuration error,
\* a failed writeto or a failed readfrom_into) leaves value, min_val,
\* max_val and devno as they were; value changes only in a call whose
\* readfrom_into completed.
C15_FailedPositionNoChange ==
    [][ last'.op = "position" =>
            /\ last'.status = "raise" =>
                UNCHANGED <<value, min_val, max_val, devno>>
            /\ value' # value =>
                /\ last'.status = "ok"
                /\ Len(last'.trace) = 3
                /\ last'.trace[3].op = "readfrom_into"
                /\ last'.trace[3].res = "ok"
            /\ UNCHANGED <<min_val, max_val, devno>>
      ]_vars

\* a position() whose reply read failed, on a value away from min_val
C15_Witness ==
    /\ last.op = "position"
    /\ last.status = "raise"
    /\ Len(last.trace) = 3
    /\ last.trace[3].res = "EIO"
    /\ value = last.pre
    /\ value # min_val

\* C16: position() is the only operation that changes value: __init__
\* sets value = min_val and issues no transaction, and button(), scan(),
\* set_device(), i2c_write and i2c_read leave value, min_val and max_val
\* unchanged whatever the reply and the outcome; set_device changes devno
\* only, takes any number unchecked and issues nothing on the bus.
C16_OnlyPositionChangesValue ==
    /\ [](last.op = "__init__" => (value = min_val /\ last.trace = <<>>))
    /\ [][ /\ value' # value => last'.op = "position"
           /\ last'.op \in {"button", "scan", "set_device", "i2c_write",
                            "i2c_read"}
              => UNCHANGED <<value, min_val, max_val>>
           /\ last'.op = "set_device" =>
                /\ last'.status = "ok"
                /\ last'.trace = <<>>
                /\ devno' \in DeviceArgs
         ]_vars

\* set_device with a number no I2C device can have, on a value that a
\* position() call had moved away from min_val
C16_Witness ==
    /\ last.op = "set_device"
    /\ last.status = "ok"
    /\ devno = 128
    /\ last.trace = <<>>
    /\ value # min_val
    /\ value = last.pre

====
